---- MODULE Spec2Model ----
(***************************************************************************)
(* A model of the falling-sand grid of src/main.rs: Particle, ConwayGrid   *)
(* and the operations new_empty, randomize, update, toggle, set_line and   *)
(* draw, and the event handler of main that drives them.                   *)
(* Cells are kept in a function over 0..width*height-1 so that indices are *)
(* the indices of the Vec in the source.                                   *)
(***************************************************************************)
EXTENDS Integers, Sequences, FiniteSets, TLC

\* ------------------------------------------------------------------ bounds
MaxWidth == 4
MaxHeight == 3
MaxCells == 6
MaxOps == 2
\* usize::MAX, scaled down to the grids explored: the largest cell count the
\* index type holds.
UsizeMax == 6
\* The number of events main's handler is given.
MaxEvents == 2

\* --------------------------------------------------------------- constants
\* const INITIAL_FILL: f32 = 10.0
INITIAL_FILL == 10
\* u8::MAX, the width of Particle::heat
U8_MAX == 255

VARIABLES
    frame,       \* main's `frame`: the ConwayGrid (particles, width, height,
                 \* scratch_cells)
    op,          \* the last operation called on the grid, or the last event
                 \* the handler was given
    ret,         \* what the last call returned: toggle's bool, FALSE for ();
                 \* in the event handler, what the latest toggle returned
    tick_start,  \* the grid the last update() was called on; <<>> when the
                 \* last operation was not update()
    line,        \* of the last set_line: whether its loop reached set_active
                 \* (drew) and whether it left through `break` (broke); both
                 \* FALSE when the last operation was not set_line
    nops,        \* number of operations called, or of events handled, so far
    dims,        \* the arguments new_empty was called with; <<>> before it
    screen,      \* the buffer the last draw was handed, as draw left it; <<>>
                 \* when the last operation was not draw
    panicked,    \* a failed assertion or expect has stopped the program
    paused,      \* main's `paused`
    draw_state,  \* main's `draw_state`
    exited,      \* *control_flow is ControlFlow::Exit
    last         \* of the last event for which input.update returned true:
                 \* what the input helper reported, paused and draw_state
                 \* before it, and the calls the handler made

gridVars == <<frame, op, ret, tick_start, line, nops, dims>>
drawVars == <<screen, panicked>>
hostVars == <<paused, draw_state, exited, last>>
vars == <<gridVars, drawVars, hostVars>>

\* ---------------------------------------------------------------- Particle
\* #[derive(Default)] struct Particle
ParticleDefault == [active |-> FALSE, already_updated |-> FALSE, heat |-> 0]

\* Particle::new
ParticleNew(active, already_updated) ==
    [active |-> active, already_updated |-> already_updated, heat |-> 0]

\* u8::wrapping_sub
wrapping_sub(a, b) == (a - b) % (U8_MAX + 1)

\* u8::saturating_sub
saturating_sub(a, b) == IF a >= b THEN a - b ELSE 0

\* Particle::next_state
next_state(p, active) ==
    [p EXCEPT !.active = active,
              !.heat = IF active THEN U8_MAX ELSE saturating_sub(p.heat, 1)]

\* Particle::set_active: *self = self.next_state(active)
set_active(p, active) == next_state(p, active)

\* Particle::cool_off with decay = num/den: (heat as f32 * decay).min(255.0)
\* .max(0.0) as u8; the cast truncates towards zero.
cool_off(p, num, den) ==
    IF ~p.active
    THEN LET prod == (p.heat * num) \div den
             lo == IF prod < U8_MAX THEN prod ELSE U8_MAX
             heat == IF lo > 0 THEN lo ELSE 0
         IN [p EXCEPT !.heat = heat]
    ELSE p

\* -------------------------------------------------------------- ConwayGrid
\* Vec::len
VecLen(v) == Cardinality(DOMAIN v)

\* Option<T>
None == <<>>
Some(i) == <<i>>

\* The outcome of a call that panicked.
Panic == [panic |-> TRUE]

\* usize::wrapping_mul
wrapping_mul(a, b) == Some((a * b) % (UsizeMax + 1))

\* usize::checked_mul
checked_mul(a, b) == IF a * b > UsizeMax THEN None ELSE Some(a * b)

\* ConwayGrid::new_empty: the assert, the expect on checked_mul, then the
\* two vectors of `size` default particles.
new_empty(w, h) ==
    IF ~(w # 0 /\ h # 0)
    THEN Panic
    ELSE LET size == checked_mul(w, h)
         IN IF size = None
            THEN Panic
            ELSE [particles |-> [i \in 0 .. (size[1] - 1) |-> ParticleDefault],
                  scratch_cells |-> [i \in 0 .. (size[1] - 1) |-> ParticleDefault],
                  width |-> w,
                  height |-> h]

\* grid_idx with `x <= self.width` for `x < self.width`.
grid_idx_inclusive(g, x, y) ==
    IF x >= 0 /\ y >= 0
    THEN IF x <= g.width /\ y < g.height THEN Some(x + y * g.width) ELSE None
    ELSE None

\* ConwayGrid::grid_idx for isize coordinates: try_into fails on a negative
\* value, then the bounds test.
grid_idx(g, x, y) ==
    IF x >= 0 /\ y >= 0
    THEN IF x < g.width /\ y < g.height THEN Some(x + y * g.width) ELSE None
    ELSE None

\* The loop body without the two already_updated tests.
UpdateCell_unguarded(ps, w, idx) ==
    IF ps[idx].active /\ idx + w < VecLen(ps)
    THEN IF ps[idx + w].active = FALSE
         THEN [ps EXCEPT ![idx + w].active = TRUE,
                         ![idx + w].already_updated = TRUE,
                         ![idx].active = FALSE]
         ELSE ps
    ELSE ps

\* The loop body without `self.particles[idx].active = false`.
UpdateCell_keep_source(ps, w, idx) ==
    IF /\ ps[idx].active
       /\ idx + w < VecLen(ps)
       /\ ps[idx + w].already_updated = FALSE
       /\ ps[idx].already_updated = FALSE
    THEN IF ps[idx + w].active = FALSE
         THEN [ps EXCEPT ![idx + w].active = TRUE,
                         ![idx + w].already_updated = TRUE]
         ELSE ps
    ELSE ps

\* The body of the first double loop of ConwayGrid::update at idx.
UpdateCell(ps, w, idx) ==
    IF /\ ps[idx].active
       /\ idx + w < VecLen(ps)
       /\ ps[idx + w].already_updated = FALSE
       /\ ps[idx].already_updated = FALSE
    THEN IF ps[idx + w].active = FALSE
         THEN [ps EXCEPT ![idx + w].active = TRUE,
                         ![idx + w].already_updated = TRUE,
                         ![idx].active = FALSE]
         ELSE ps
    ELSE ps

\* The first double loop with `for y in 1..self.height`.
RECURSIVE UpdateScan_from_row_1(_, _, _, _)
UpdateScan_from_row_1(ps, w, h, k) ==
    IF k >= w * h
    THEN ps
    ELSE LET x == k % w
             y == k \div w
         IN UpdateScan_from_row_1(
                IF y = 0 THEN ps ELSE UpdateCell(ps, w, x + y * w), w, h, k + 1)

\* The first double loop of ConwayGrid::update: for y in 0..height, for x in
\* 0..width; k counts the iterations done.
RECURSIVE UpdateScan(_, _, _, _)
UpdateScan(ps, w, h, k) ==
    IF k >= w * h
    THEN ps
    ELSE LET x == k % w
             y == k \div w
         IN UpdateScan(UpdateCell(ps, w, x + y * w), w, h, k + 1)

\* The second double loop of ConwayGrid::update.
ResetGuards(ps, w, h) ==
    [i \in DOMAIN ps |->
        IF \E y \in 0 .. (h - 1), x \in 0 .. (w - 1) : i = x + y * w
        THEN [ps[i] EXCEPT !.already_updated = FALSE]
        ELSE ps[i]]

\* update without its second double loop.
update_no_reset(g) ==
    [g EXCEPT !.particles = UpdateScan(g.particles, g.width, g.height, 0)]

\* ConwayGrid::update
update(g) ==
    [g EXCEPT !.particles =
        ResetGuards(UpdateScan(g.particles, g.width, g.height, 0),
                    g.width, g.height)]

\* The uniform draws of randomize (f32_half_open_right, a value of [0,1)) in
\* tenths: 0.0 and 0.9.
Draws == {0, 9}

\* randomize with `<` for `>` in the comparison with INITIAL_FILL.
randomize_less(g, d) ==
    LET fresh == [g EXCEPT !.particles =
                    [i \in DOMAIN g.particles |->
                        ParticleNew(d[i] < INITIAL_FILL * 10, FALSE)]]
        settled == update(update(update(fresh)))
    IN [settled EXCEPT !.particles =
            [i \in DOMAIN settled.particles |->
                cool_off(settled.particles[i], 2, 5)]]

\* ConwayGrid::randomize, d[i] the draw of cell i in tenths.
randomize(g, d) ==
    LET fresh == [g EXCEPT !.particles =
                    [i \in DOMAIN g.particles |->
                        ParticleNew(d[i] > INITIAL_FILL * 10, FALSE)]]
        settled == update(update(update(fresh)))
    IN [settled EXCEPT !.particles =
            [i \in DOMAIN settled.particles |->
                cool_off(settled.particles[i], 2, 5)]]

\* toggle returning was_alive for !was_alive.
toggle_returns_old(g, x, y) ==
    LET r == grid_idx(g, x, y)
    IN IF r # None
       THEN LET i == r[1]
                was_alive == g.particles[i].active
            IN <<[g EXCEPT !.particles[i] = set_active(@, ~was_alive)],
                 was_alive>>
       ELSE <<g, FALSE>>

\* ConwayGrid::toggle: <<the grid after, the return value>>
toggle(g, x, y) ==
    LET r == grid_idx(g, x, y)
    IN IF r # None
       THEN LET i == r[1]
                was_alive == g.particles[i].active
            IN <<[g EXCEPT !.particles[i] = set_active(@, ~was_alive)],
                 ~was_alive>>
       ELSE <<g, FALSE>>

\* ------------------------------------------------------- line rasterizer
\* line_drawing::Octant::new
OctantNew(x0, y0, x1, y1) ==
    LET dx0 == x1 - x0
        dy0 == y1 - y0
        v4 == IF dy0 < 0 THEN 4 ELSE 0
        dx1 == IF dy0 < 0 THEN -dx0 ELSE dx0
        dy1 == IF dy0 < 0 THEN -dy0 ELSE dy0
        v2 == IF dx1 < 0 THEN 2 ELSE 0
        dx2 == IF dx1 < 0 THEN dy1 ELSE dx1
        dy2 == IF dx1 < 0 THEN -dx1 ELSE dy1
        v1 == IF dx2 < dy2 THEN 1 ELSE 0
    IN v4 + v2 + v1

\* line_drawing::Octant::to
OctantTo(o, p) ==
    CASE o = 0 -> <<p[1], p[2]>>
      [] o = 1 -> <<p[2], p[1]>>
      [] o = 2 -> <<p[2], -p[1]>>
      [] o = 3 -> <<-p[1], p[2]>>
      [] o = 4 -> <<-p[1], -p[2]>>
      [] o = 5 -> <<-p[2], -p[1]>>
      [] o = 6 -> <<-p[2], p[1]>>
      [] o = 7 -> <<p[1], -p[2]>>

\* line_drawing::Octant::from
OctantFrom(o, p) ==
    CASE o = 0 -> <<p[1], p[2]>>
      [] o = 1 -> <<p[2], p[1]>>
      [] o = 2 -> <<-p[2], p[1]>>
      [] o = 3 -> <<-p[1], p[2]>>
      [] o = 4 -> <<-p[1], -p[2]>>
      [] o = 5 -> <<-p[2], -p[1]>>
      [] o = 6 -> <<p[2], -p[1]>>
      [] o = 7 -> <<p[1], -p[2]>>

\* The iterator of line_drawing::Bresenham in the first octant: the points
\* produced from (px, py) on, up to and including the column end_x.
RECURSIVE BresenhamIter(_, _, _, _, _, _, _)
BresenhamIter(o, px, py, end_x, delta_x, delta_y, error) ==
    IF px <= end_x
    THEN LET step == error >= 0
             py2 == IF step THEN py + 1 ELSE py
             e2 == IF step THEN error - delta_x ELSE error
         IN <<OctantFrom(o, <<px, py>>)>> \o
            BresenhamIter(o, px + 1, py2, end_x, delta_x, delta_y, e2 + delta_y)
    ELSE <<>>

\* line_drawing::Bresenham::new((x0, y0), (x1, y1)), collected: the sequence
\* of points of the line, both ends included.
Bresenham(x0, y0, x1, y1) ==
    LET o == OctantNew(x0, y0, x1, y1)
        s == OctantTo(o, <<x0, y0>>)
        e == OctantTo(o, <<x1, y1>>)
        delta_x == e[1] - s[1]
        delta_y == e[2] - s[2]
    IN BresenhamIter(o, s[1], s[2], e[1], delta_x, delta_y, delta_y - delta_x)

\* Clamping to hi - 1, the last valid column or row.
Clamp_inside(v, lo, hi) ==
    LET a == IF v > lo THEN v ELSE lo
    IN IF a < hi - 1 THEN a ELSE hi - 1

\* isize::max then isize::min
Clamp(v, lo, hi) ==
    LET a == IF v > lo THEN v ELSE lo
    IN IF a < hi THEN a ELSE hi

\* The loop with `continue` for `break`.
RECURSIVE SetLineLoop_continue(_, _, _, _)
SetLineLoop_continue(g, path, k, active) ==
    IF k > Len(path)
    THEN g
    ELSE LET r == grid_idx(g, path[k][1], path[k][2])
         IN IF r # None
            THEN SetLineLoop_continue(
                    [g EXCEPT !.particles[r[1]] = set_active(@, active)],
                    path, k + 1, active)
            ELSE SetLineLoop_continue(g, path, k + 1, active)

\* The loop leaving before the last point of the path.
RECURSIVE SetLineLoop_open(_, _, _, _)
SetLineLoop_open(g, path, k, active) ==
    IF k >= Len(path)
    THEN g
    ELSE LET r == grid_idx(g, path[k][1], path[k][2])
         IN IF r # None
            THEN SetLineLoop_open(
                    [g EXCEPT !.particles[r[1]] = set_active(@, active)],
                    path, k + 1, active)
            ELSE g

\* The for loop of ConwayGrid::set_line over the points path[k..]: set_active
\* on each cell, break on the first point that grid_idx does not resolve.
RECURSIVE SetLineLoop(_, _, _, _)
SetLineLoop(g, path, k, active) ==
    IF k > Len(path)
    THEN g
    ELSE LET r == grid_idx(g, path[k][1], path[k][2])
         IN IF r # None
            THEN SetLineLoop([g EXCEPT !.particles[r[1]] = set_active(@, active)],
                             path, k + 1, active)
            ELSE g

\* The points ConwayGrid::set_line iterates over: the line from the clamped
\* start to the end.
LinePath(g, x0, y0, x1, y1) ==
    Bresenham(Clamp(x0, 0, g.width), Clamp(y0, 0, g.height), x1, y1)

\* ConwayGrid::set_line
set_line(g, x0, y0, x1, y1, active) ==
    SetLineLoop(g, LinePath(g, x0, y0, x1, y1), 1, active)

\* The number of iterations of set_line's loop that reach set_active: the
\* points of the path before the first one grid_idx does not resolve.
RECURSIVE Drawn(_, _, _)
Drawn(g, path, k) ==
    IF k > Len(path) \/ grid_idx(g, path[k][1], path[k][2]) = None
    THEN k - 1
    ELSE Drawn(g, path, k + 1)

\* -------------------------------------------------------------------- draw
\* pix.copy_from_slice(&color): the four bytes of pixel k of the buffer.
PutPixel(buf, k, color) ==
    [j \in 1 .. Len(buf) |->
        IF 4 * k < j /\ j <= 4 * k + 4 THEN color[j - 4 * k] ELSE buf[j]]

\* The loop of draw with the heat of an inactive cell in the second byte.
RECURSIVE DrawZip_heat_in_green(_, _, _)
DrawZip_heat_in_green(g, buf, k) ==
    IF k >= VecLen(g.particles) \/ 4 * k + 4 > Len(buf)
    THEN buf
    ELSE LET p == g.particles[k]
             color == IF p.active
                      THEN <<0, 255, 255, 255>>
                      ELSE <<0, p.heat, 0, 255>>
         IN DrawZip_heat_in_green(g, PutPixel(buf, k, color), k + 1)

\* for (p, pix) in self.particles.iter().zip(screen.chunks_exact_mut(4)):
\* the zip ends with the shorter side, chunks_exact_mut leaves out a last
\* chunk of fewer than four bytes.
RECURSIVE DrawZip(_, _, _)
DrawZip(g, buf, k) ==
    IF k >= VecLen(g.particles) \/ 4 * k + 4 > Len(buf)
    THEN buf
    ELSE LET p == g.particles[k]
             color == IF p.active
                      THEN <<0, 255, 255, 255>>
                      ELSE <<0, 0, p.heat, 255>>
         IN DrawZip(g, PutPixel(buf, k, color), k + 1)

\* ConwayGrid::draw(&self, screen). debug_assert_eq! is compiled in only
\* when the build has debug assertions on (cfg(debug_assertions)): then a
\* length mismatch panics before anything is written; otherwise the loop
\* runs on whatever buffer it was given.
draw(g, buf, debug_assertions) ==
    IF debug_assertions /\ VecLen(g.particles) * 4 # Len(buf)
    THEN [panicked |-> TRUE, screen |-> buf]
    ELSE [panicked |-> FALSE, screen |-> DrawZip(g, buf, 0)]

\* ------------------------------------------------------------- behaviour
\* The grid sizes explored.
Dims == {d \in (1 .. MaxWidth) \X (1 .. MaxHeight) : d[1] * d[2] <= MaxCells}

\* The coordinates handed to toggle and set_line: the columns and rows of the
\* grid and one more on each side.
Xs == -1 .. frame.width
Ys == -1 .. frame.height

NoLine == [drew |-> FALSE, broke |-> FALSE]

\* No event handled yet.
NoEvent == [handled |-> FALSE]

\* main before event_loop.run: paused = false, draw_state = None.
HostIdle ==
    /\ paused = FALSE
    /\ draw_state = None
    /\ exited = FALSE
    /\ last = NoEvent

\* ConwayGrid::new_empty(w, h)
Init ==
    /\ \E d \in Dims : frame = new_empty(d[1], d[2]) /\ dims = d
    /\ op = "new_empty"
    /\ ret = FALSE
    /\ tick_start = <<>>
    /\ line = NoLine
    /\ nops = 0
    /\ screen = <<>>
    /\ panicked = FALSE
    /\ HostIdle

Called(name) ==
    /\ nops' = nops + 1
    /\ op' = name
    /\ screen' = <<>>
    /\ UNCHANGED <<dims, panicked, hostVars>>

\* frame.randomize()
CallRandomize ==
    /\ nops < MaxOps
    /\ \E d \in [DOMAIN frame.particles -> Draws] : frame' = randomize(frame, d)
    /\ Called("randomize")
    /\ tick_start' = <<>>
    /\ line' = NoLine
    /\ ret' = FALSE

\* frame.update()
CallUpdate ==
    /\ nops < MaxOps
    /\ frame' = update(frame)
    /\ Called("update")
    /\ tick_start' = frame
    /\ line' = NoLine
    /\ ret' = FALSE

\* draw_state = Some(frame.toggle(x, y))
CallToggle ==
    /\ nops < MaxOps
    /\ \E x \in Xs, y \in Ys :
        LET t == toggle(frame, x, y)
        IN /\ frame' = t[1]
           /\ ret' = t[2]
    /\ Called("toggle")
    /\ tick_start' = <<>>
    /\ line' = NoLine

\* frame.set_line(x0, y0, x1, y1, active)
CallSetLine ==
    /\ nops < MaxOps
    /\ \E x0 \in Xs, y0 \in Ys, x1 \in Xs, y1 \in Ys, a \in BOOLEAN :
        LET path == LinePath(frame, x0, y0, x1, y1)
            n == Drawn(frame, path, 1)
        IN /\ frame' = set_line(frame, x0, y0, x1, y1, a)
           /\ line' = [drew |-> n > 0, broke |-> n < Len(path)]
    /\ Called("set_line")
    /\ tick_start' = <<>>
    /\ ret' = FALSE

Next ==
    \/ CallRandomize
    \/ CallUpdate
    \/ CallToggle
    \/ CallSetLine

Spec == Init /\ [][Next]_vars

\* ---------------------------------------------------- behaviour with draw
\* What the buffer holds before draw writes to it.
Stale == 7

\* The buffers handed to draw: of the length of the grid's frame, and
\* shorter and longer by a byte, by a pixel, and empty.
BufLens ==
    LET n == 4 * VecLen(frame.particles)
    IN {l \in {0, n - 4, n - 1, n, n + 1, n + 4} : l >= 0}
Buffers == {[j \in 1 .. l |-> Stale] : l \in BufLens}

\* frame.draw(screen), in a build with or without debug assertions. A panic
\* ends the program.
CallDraw ==
    /\ ~panicked
    /\ \E buf \in Buffers, debug_assertions \in BOOLEAN :
        LET r == draw(frame, buf, debug_assertions)
        IN /\ screen' = r.screen
           /\ panicked' = r.panicked
    /\ op' = "draw"
    /\ frame' = frame
    /\ tick_start' = <<>>
    /\ line' = NoLine
    /\ ret' = FALSE
    /\ UNCHANGED <<nops, dims, hostVars>>

\* The runs explored are operations on the grid followed by draw calls: draw
\* takes &self, so an operation after a draw finds the grid it would have
\* found before it.
DrawNext ==
    \/ CallDraw
    \/ op # "draw" /\ Next

DrawSpec == Init /\ [][DrawNext]_vars

\* ------------------------------------------- behaviour from construction
\* main before `frame` is bound.
NoGrid == [particles |-> <<>>, scratch_cells |-> <<>>, width |-> 0, height |-> 0]

NewInit ==
    /\ frame = NoGrid
    /\ dims = <<>>
    /\ op = "main"
    /\ ret = FALSE
    /\ tick_start = <<>>
    /\ line = NoLine
    /\ nops = 0
    /\ screen = <<>>
    /\ panicked = FALSE
    /\ HostIdle

\* The sides new_empty is called with.
Sides == 0 .. MaxWidth

\* let frame = ConwayGrid::new_empty(w, h). A panic ends the program.
CallNewEmpty ==
    /\ op = "main"
    /\ \E w \in Sides, h \in Sides :
        LET r == new_empty(w, h)
        IN /\ dims' = <<w, h>>
           /\ panicked' = (r = Panic)
           /\ frame' = IF r = Panic THEN frame ELSE r
    /\ op' = "new_empty"
    /\ UNCHANGED <<ret, tick_start, line, nops, screen, hostVars>>

NewNext ==
    \/ CallNewEmpty
    \/ op # "main" /\ ~panicked /\ Next

NewSpec == NewInit /\ [][NewNext]_vars

\* ------------------------------------------------------------------ types
TypeOK ==
    /\ frame.width \in 1 .. MaxWidth
    /\ frame.height \in 1 .. MaxHeight
    /\ DOMAIN frame.particles = 0 .. (frame.width * frame.height - 1)
    /\ \A i \in DOMAIN frame.particles :
        /\ frame.particles[i].active \in BOOLEAN
        /\ frame.particles[i].already_updated \in BOOLEAN
        /\ frame.particles[i].heat \in 0 .. U8_MAX
    /\ nops \in 0 .. MaxOps

\* The rasterizer, as section 4.5 describes it: from the start to the end,
\* both included, one point per column (or row) of the longer axis, each a
\* neighbour of the one before.
Abs(v) == IF v < 0 THEN -v ELSE v
RasterOK ==
    \A x0 \in Xs, y0 \in Ys, x1 \in Xs, y1 \in Ys :
        LET path == Bresenham(x0, y0, x1, y1)
            dx == Abs(x1 - x0)
            dy == Abs(y1 - y0)
        IN /\ Len(path) = (IF dx > dy THEN dx ELSE dy) + 1
           /\ path[1] = <<x0, y0>>
           /\ path[Len(path)] = <<x1, y1>>
           /\ \A k \in 1 .. (Len(path) - 1) :
                /\ Abs(path[k + 1][1] - path[k][1]) <= 1
                /\ Abs(path[k + 1][2] - path[k][2]) <= 1
                /\ path[k + 1] # path[k]
           /\ Bresenham(2, 2, 2, 2) = <<(<<2, 2>>)>>
           /\ Bresenham(0, 0, 3, 0) = <<(<<0, 0>>), <<1, 0>>, <<2, 0>>, <<3, 0>>>>

\* ----------------------------------------------------------------- claims
Cells == DOMAIN frame.particles
P(i) == frame.particles[i]

\* C1: in every state reached from new_empty by randomize, update, toggle and
\* set_line calls, every cell whose active flag is true has heat 255.
C1_ActiveHeat == \A i \in Cells : P(i).active => P(i).heat = U8_MAX

\* C2: already_updated is false on every cell whenever no update() call is in
\* progress, in particular when update() and when randomize() return.
C2_GuardsClear == \A i \in Cells : P(i).already_updated = FALSE

\* update() has just returned and a particle fell during it.
C2_Witness ==
    /\ op = "update"
    /\ \E i \in Cells :
        /\ i + frame.width \in Cells
        /\ tick_start.particles[i].active
        /\ ~P(i).active
        /\ P(i + frame.width).active
        /\ ~tick_start.particles[i + frame.width].active

\* C3: for the update() call on any reachable grid (all guards clear): every
\* cell i above the last row that starts active over an inactive cell i+width
\* ends inactive, and cell i+width ends active.
C3_SingleMove ==
    (\A j \in Cells : ~P(j).already_updated) =>
        LET post == update(frame).particles
        IN \A i \in Cells :
            (i + frame.width \in Cells /\ P(i).active /\ ~P(i + frame.width).active)
                => (~post[i].active /\ post[i + frame.width].active)

\* update() has just moved a particle that had two free cells below it: it
\* fell one row only.
C3_Witness ==
    /\ op = "update"
    /\ \E i \in Cells :
        /\ i + 2 * frame.width \in Cells
        /\ tick_start.particles[i].active
        /\ ~tick_start.particles[i + frame.width].active
        /\ ~tick_start.particles[i + 2 * frame.width].active
        /\ ~P(i).active
        /\ P(i + frame.width).active
        /\ ~P(i + 2 * frame.width).active

\* heat - 1, not below 0
Dec(heat) == IF heat = 0 THEN 0 ELSE heat - 1
InGrid(x, y) == 0 <= x /\ x < frame.width /\ 0 <= y /\ y < frame.height
At(x, y) == x + y * frame.width

\* C4: whenever update() deactivates a cell (its particle falls), the cell's
\* heat after the call is its heat before the call minus 1, saturating at 0,
\* as when set_active(false) deactivates it.
C4_FallDecaysHeat ==
    op = "update" =>
        \A i \in Cells :
            (tick_start.particles[i].active /\ ~P(i).active)
                => P(i).heat = Dec(tick_start.particles[i].heat)

\* C5: every cell reached through toggle or set_line has, after
\* set_active(true), heat 255 and, after set_active(false), its previous heat
\* minus 1, never below 0 and never wrapping, also when it was inactive before.
C5_SetActiveHeat ==
    /\ \A x \in Xs, y \in Ys :
        InGrid(x, y) =>
            \A q \in {toggle(frame, x, y)[1].particles[At(x, y)]} :
               /\ q.heat \in 0 .. U8_MAX
               /\ q.active => q.heat = U8_MAX
               /\ ~q.active => q.heat = Dec(P(At(x, y)).heat)
    /\ nops < MaxOps =>
       \A x0 \in Xs, y0 \in Ys, x1 \in Xs, y1 \in Ys :
        \A path \in {LinePath(frame, x0, y0, x1, y1)} :
            \A reached \in {{At(path[k][1], path[k][2]) : k \in 1 .. Drawn(frame, path, 1)}} :
                \A a \in BOOLEAN :
                    \A post \in {set_line(frame, x0, y0, x1, y1, a).particles} :
                        \A i \in reached :
                            /\ post[i].heat \in 0 .. U8_MAX
                            /\ a => post[i].heat = U8_MAX
                            /\ ~a => post[i].heat = Dec(P(i).heat)

\* toggle has just deactivated a cell: its heat went from 255 to 254.
C5_Witness ==
    /\ op = "toggle"
    /\ ret = FALSE
    /\ \E i \in Cells : ~P(i).active /\ P(i).heat = U8_MAX - 1

\* C6: toggle(x, y) with x < 0, y < 0, x >= width or y >= height returns false
\* and leaves the grid unchanged; otherwise it flips the active flag of exactly
\* the cell x + y*width, returns that cell's new active value and leaves the
\* other cells, width and height unchanged.
C6_Toggle ==
    \A x \in Xs, y \in Ys :
        LET t == toggle(frame, x, y)
        IN IF x < 0 \/ y < 0 \/ x >= frame.width \/ y >= frame.height
           THEN t[2] = FALSE /\ t[1] = frame
           ELSE /\ t[1].particles[At(x, y)].active = ~P(At(x, y)).active
                /\ t[2] = t[1].particles[At(x, y)].active
                /\ DOMAIN t[1].particles = Cells
                /\ \A j \in Cells \ {At(x, y)} : t[1].particles[j] = P(j)
                /\ t[1].width = frame.width
                /\ t[1].height = frame.height
                /\ t[1].scratch_cells = frame.scratch_cells

\* toggle has just returned true on a grid of several cells, one of them lit.
C6_Witness ==
    /\ op = "toggle"
    /\ ret = TRUE
    /\ Cardinality({i \in Cells : P(i).active}) = 1
    /\ Cardinality(Cells) > 1

\* C7: grid_idx(x, y) is the index x + y*width, below width*height, exactly
\* when 0 <= x < width and 0 <= y < height, and absent for every other pair;
\* two distinct in-range pairs never have the same index.
C7_GridIdx ==
    /\ \A x \in Xs, y \in Ys :
        IF 0 <= x /\ x < frame.width /\ 0 <= y /\ y < frame.height
        THEN /\ grid_idx(frame, x, y) = Some(x + y * frame.width)
             /\ x + y * frame.width < frame.width * frame.height
        ELSE grid_idx(frame, x, y) = None
    /\ \A x \in Xs, y \in Ys, u \in Xs, v \in Ys :
        (/\ grid_idx(frame, x, y) # None
         /\ grid_idx(frame, x, y) = grid_idx(frame, u, v))
            => (x = u /\ y = v)

\* toggle has just resolved the last column of the first of several rows of a
\* grid wider than high: the cell lit is width - 1, and no other.
C7_Witness ==
    /\ op = "toggle"
    /\ ret = TRUE
    /\ frame.height > 1
    /\ frame.width > frame.height
    /\ \A i \in Cells : P(i).active <=> i = frame.width - 1

\* The contracts of set_line below are stated for every set_line call that
\* CallSetLine can make: every argument tuple, at every grid with
\* nops < MaxOps.

\* The point (x, y) lies outside the grid.
Outside(pt) == ~InGrid(pt[1], pt[2])
\* The points of path before its first point outside the grid.
BeforeExit(path) ==
    {k \in 1 .. Len(path) : \A j \in 1 .. k : ~Outside(path[j])}

\* C8: set_line applies set_active(a) to the cells of the rasterized path from
\* the clamped start, in path order, up to and not including the first point
\* outside the grid; every cell at or after that point on the path, also where
\* the line is back inside the grid, and every cell off the path is unchanged.
C8_StopsAtExit ==
    nops < MaxOps =>
    \A x0 \in Xs, y0 \in Ys, x1 \in Xs, y1 \in Ys :
        LET cx0 == IF x0 < 0 THEN 0 ELSE IF x0 > frame.width THEN frame.width ELSE x0
            cy0 == IF y0 < 0 THEN 0 ELSE IF y0 > frame.height THEN frame.height ELSE y0
        IN \A path \in {Bresenham(cx0, cy0, x1, y1)} :
            \A hit \in {{At(path[k][1], path[k][2]) : k \in BeforeExit(path)}} :
                \A a \in BOOLEAN :
                    set_line(frame, x0, y0, x1, y1, a) =
                        [frame EXCEPT !.particles =
                            [i \in Cells |->
                                IF i \in hit THEN next_state(P(i), a) ELSE P(i)]]

\* set_line, the first call on the grid, has just set two cells of several and
\* then left its loop through `break`.
C8_Witness ==
    /\ op = "set_line"
    /\ nops = 1
    /\ line = [drew |-> TRUE, broke |-> TRUE]
    /\ Cardinality({i \in Cells : P(i).active}) = 2
    /\ Cardinality(Cells) > 2

\* C9 as stated: a start with x0 >= width or y0 >= height makes set_line
\* change no cell; a start with x0 < 0 or y0 < 0 is clamped to 0 and drawing
\* proceeds from that point, which is in the grid.
C9_AsStated ==
    nops < MaxOps =>
    \A x0 \in Xs, y0 \in Ys, x1 \in Xs, y1 \in Ys, a \in BOOLEAN :
        LET sx == IF x0 < 0 THEN 0 ELSE x0
            sy == IF y0 < 0 THEN 0 ELSE y0
        IN \A post \in {set_line(frame, x0, y0, x1, y1, a)} :
           /\ (x0 >= frame.width \/ y0 >= frame.height) => post = frame
           /\ (x0 < 0 \/ y0 < 0) =>
                /\ InGrid(sx, sy)
                /\ post.particles[At(sx, sy)] = next_state(P(At(sx, sy)), a)

\* C9, amended: a start with x0 >= width or y0 >= height makes set_line change
\* no cell, whatever the end; a start with x0 < 0 or y0 < 0, and with
\* x0 < width and y0 < height, has its negative coordinates clamped to 0 and
\* set_active(a) is applied to the cell of that point.
C9_ClampedStart ==
    nops < MaxOps =>
    \A x0 \in Xs, y0 \in Ys, x1 \in Xs, y1 \in Ys, a \in BOOLEAN :
        LET sx == IF x0 < 0 THEN 0 ELSE x0
            sy == IF y0 < 0 THEN 0 ELSE y0
        IN \A post \in {set_line(frame, x0, y0, x1, y1, a)} :
           /\ (x0 >= frame.width \/ y0 >= frame.height) => post = frame
           /\ ((x0 < 0 \/ y0 < 0) /\ x0 < frame.width /\ y0 < frame.height) =>
                /\ InGrid(sx, sy)
                /\ post.particles[At(sx, sy)] = next_state(P(At(sx, sy)), a)

\* set_line has just left its loop at the first point, on a grid that holds
\* an active cell: the start was at or beyond width or height.
C9_Witness ==
    /\ op = "set_line"
    /\ line = [drew |-> FALSE, broke |-> TRUE]
    /\ \E i \in Cells : P(i).active

\* C10: with both ends inside the grid, after set_line every cell of the line
\* between them, both end cells included, has active = a; a line from a point
\* to itself changes that one cell only; the line from (0,0) to (3,0) sets
\* exactly the cells (0,0), (1,0), (2,0), (3,0).
C10_LineInGrid ==
    nops < MaxOps =>
    \A x0 \in Xs, y0 \in Ys, x1 \in Xs, y1 \in Ys, a \in BOOLEAN :
        (InGrid(x0, y0) /\ InGrid(x1, y1)) =>
            \A post \in {set_line(frame, x0, y0, x1, y1, a).particles},
               path \in {Bresenham(x0, y0, x1, y1)},
               row \in {{At(x, 0) : x \in 0 .. 3}} :
               /\ post[At(x0, y0)].active = a
               /\ post[At(x1, y1)].active = a
               /\ \A k \in 1 .. Len(path) :
                    /\ InGrid(path[k][1], path[k][2])
                    /\ post[At(path[k][1], path[k][2])].active = a
               /\ (y0 = y1) =>
                    \A x \in 0 .. (frame.width - 1) :
                        ((x0 <= x /\ x <= x1) \/ (x1 <= x /\ x <= x0))
                            => post[At(x, y0)].active = a
               /\ (x0 = x1) =>
                    \A y \in 0 .. (frame.height - 1) :
                        ((y0 <= y /\ y <= y1) \/ (y1 <= y /\ y <= y0))
                            => post[At(x0, y)].active = a
               /\ (x0 = x1 /\ y0 = y1) =>
                    /\ post[At(x0, y0)] = next_state(P(At(x0, y0)), a)
                    /\ \A j \in Cells \ {At(x0, y0)} : post[j] = P(j)
               /\ (x0 = 0 /\ y0 = 0 /\ x1 = 3 /\ y1 = 0) =>
                    /\ \A j \in row : post[j] = next_state(P(j), a)
                    /\ \A j \in Cells \ row : post[j] = P(j)

\* set_line, the first call on a grid four wide, has just run to the end of
\* its path and lit the whole row, as from (0,0) to (3,0).
C10_Witness ==
    /\ op = "set_line"
    /\ nops = 1
    /\ line = [drew |-> TRUE, broke |-> FALSE]
    /\ frame.width = 4
    /\ \A j \in 0 .. 3 : P(j).active

\* ------------------------------------------- behaviour of the event handler
\* The key handling with the Space test before the P test.
HandleKeys_space_first(pz, p, space) ==
    LET a == IF space THEN TRUE ELSE pz
    IN IF p THEN ~a ELSE a

\* if key_pressed(P) { paused = !paused }; if key_pressed(Space) { paused =
\* true }: the value of paused after both.
HandleKeys(pz, p, space) ==
    LET a == IF p THEN ~pz ELSE pz
    IN IF space THEN TRUE ELSE a

\* if !paused || input.key_pressed(VirtualKeyCode::Space)
ShouldUpdate(pz, space) == ~pz \/ space

\* The mouse handling without `draw_state = None`.
HandleMouse_keeps_drawing(g, ds, pressed, released, hold, cell, prev) ==
    IF pressed
    THEN LET t == toggle(g, cell[1], cell[2])
         IN [frame |-> t[1], draw_state |-> Some(t[2]),
             toggled |-> Some(t[2]), line_active |-> None]
    ELSE IF ds # None
         THEN LET draw_alive == ds[1]
              IN [frame |-> IF released \/ hold
                            THEN set_line(g, prev[1], prev[2], cell[1], cell[2],
                                          draw_alive)
                            ELSE g,
                  draw_state |-> ds,
                  toggled |-> None,
                  line_active |-> IF released \/ hold THEN Some(draw_alive) ELSE None]
         ELSE [frame |-> g, draw_state |-> ds, toggled |-> None, line_active |-> None]

\* The mouse handling of the handler on the grid g with draw_state ds:
\* the grid and draw_state after it, what toggle returned if it was called
\* (toggled) and the active argument of set_line if it was called
\* (line_active).
HandleMouse(g, ds, pressed, released, hold, cell, prev) ==
    IF pressed
    THEN LET t == toggle(g, cell[1], cell[2])
         IN [frame |-> t[1], draw_state |-> Some(t[2]),
             toggled |-> Some(t[2]), line_active |-> None]
    ELSE IF ds # None
         THEN LET draw_alive == ds[1]
              IN [frame |-> IF released \/ hold
                            THEN set_line(g, prev[1], prev[2], cell[1], cell[2],
                                          draw_alive)
                            ELSE g,
                  draw_state |-> IF released \/ ~hold THEN None ELSE ds,
                  toggled |-> None,
                  line_active |-> IF released \/ hold THEN Some(draw_alive) ELSE None]
         ELSE [frame |-> g, draw_state |-> ds, toggled |-> None, line_active |-> None]

\* The grid sizes the handler is run on, standing for SCREEN_WIDTH x
\* SCREEN_HEIGHT: one cell, one row of two, one column of two.
HostDims == {<<1, 1>>, <<2, 1>>, <<1, 2>>}

\* The draws of one randomize call of the handler: every cell 0.0, or every
\* cell 0.9.
HostDraws(g) == {[i \in DOMAIN g.particles |-> v] : v \in Draws}

\* let mut frame = ConwayGrid::new_random(w, h)
HostInit ==
    /\ \E d \in HostDims :
        /\ dims = d
        /\ \E rnd \in HostDraws(new_empty(d[1], d[2])) :
            frame = randomize(new_empty(d[1], d[2]), rnd)
    /\ op = "new_random"
    /\ ret = FALSE
    /\ tick_start = <<>>
    /\ line = NoLine
    /\ nops = 0
    /\ screen = <<>>
    /\ panicked = FALSE
    /\ HostIdle

\* The cells window_pos_to_pixel / clamp_pixel_pos give: cells of the grid.
MouseCells == (0 .. (frame.width - 1)) \X (0 .. (frame.height - 1))

\* The handler on Event::RedrawRequested: draw into the pixel buffer, which
\* Pixels::new made for the size of the grid, then render, which may fail.
RedrawRequested ==
    /\ nops < MaxEvents
    /\ ~exited
    /\ \E debug_assertions \in BOOLEAN, render_ok \in BOOLEAN :
        LET r == draw(frame, [j \in 1 .. (4 * frame.width * frame.height) |-> Stale],
                      debug_assertions)
        IN /\ screen' = r.screen
           /\ panicked' = r.panicked
           /\ exited' = ~render_ok
    /\ op' = "RedrawRequested"
    /\ nops' = nops + 1
    /\ UNCHANGED <<frame, ret, tick_start, line, dims, paused, draw_state, last>>

\* The handler on the event for which input.update returns true, with what
\* the input helper reports for this step: Escape or quit, the keys P, Space
\* and R, mouse button 0 pressed, released, held, and the two mouse cells.
\* The draws are chosen only when randomize is called and the mouse cells
\* only when toggle or set_line is. ret keeps what the latest toggle
\* returned.
MainEventsCleared ==
    /\ nops < MaxEvents
    /\ ~exited
    /\ \E quit \in BOOLEAN, p \in BOOLEAN, space \in BOOLEAN, r \in BOOLEAN,
          pressed \in BOOLEAN, released \in BOOLEAN, hold \in BOOLEAN :
        LET seen == [handled |-> TRUE, quit |-> quit, p |-> p, space |-> space,
                     pressed |-> pressed, released |-> released, hold |-> hold,
                     paused0 |-> paused, draw0 |-> draw_state]
        IN IF quit
           THEN /\ exited' = TRUE
                /\ last' = [updates |-> 0, line_active |-> None] @@ seen
                /\ UNCHANGED <<frame, paused, draw_state, ret>>
           ELSE \E rnd \in IF r THEN HostDraws(frame) ELSE {<<>>},
                   cell \in IF pressed \/ (draw_state # None /\ (released \/ hold))
                            THEN MouseCells
                            ELSE {<<0, 0>>},
                   prev \in IF ~pressed /\ draw_state # None /\ (released \/ hold)
                            THEN MouseCells
                            ELSE {<<0, 0>>} :
                LET pz == HandleKeys(paused, p, space)
                    g1 == IF r THEN randomize(frame, rnd) ELSE frame
                    m == HandleMouse(g1, draw_state, pressed, released, hold,
                                     cell, prev)
                    upd == ShouldUpdate(pz, space)
                IN /\ frame' = IF upd THEN update(m.frame) ELSE m.frame
                   /\ paused' = pz
                   /\ draw_state' = m.draw_state
                   /\ ret' = IF m.toggled # None THEN m.toggled[1] ELSE ret
                   /\ exited' = FALSE
                   /\ last' = [updates |-> IF upd THEN 1 ELSE 0,
                               line_active |-> m.line_active] @@ seen
    /\ op' = "MainEventsCleared"
    /\ nops' = nops + 1
    /\ tick_start' = <<>>
    /\ line' = NoLine
    /\ screen' = <<>>
    /\ UNCHANGED <<dims, panicked>>

HostNext ==
    \/ RedrawRequested
    \/ MainEventsCleared

HostSpec == HostInit /\ [][HostNext]_vars

\* ------------------------------------------------------------ claims: draw
\* The four bytes draw writes for cell i of the grid g.
Pixel(buf, i) == <<buf[4 * i + 1], buf[4 * i + 2], buf[4 * i + 3], buf[4 * i + 4]>>

\* C11: a draw call with a buffer whose length is not 4 * width * height
\* halts, and has written nothing to the buffer.
C11_WrongLengthHalts ==
    (op = "draw" /\ Len(screen) # 4 * frame.width * frame.height)
        => (panicked /\ \A j \in 1 .. Len(screen) : screen[j] = Stale)

\* C12: a draw call with a buffer of 4 * width * height bytes returns with
\* bytes 4i..4i+3 equal to [0,255,255,255] for an active cell i and to
\* [0,0,heat,255] for an inactive one, and leaves the grid as it was.
C12_DrawBytes ==
    [][(op' = "draw" /\ Len(screen') = 4 * frame.width * frame.height)
        => /\ ~panicked'
           /\ frame' = frame
           /\ \A i \in Cells :
                Pixel(screen', i) = IF P(i).active
                                    THEN <<0, 255, 255, 255>>
                                    ELSE <<0, 0, P(i).heat, 255>>]_vars

\* A frame drawn of a grid with an active cell and a warm inactive one.
C12_Witness ==
    /\ op = "draw"
    /\ ~panicked
    /\ Len(screen) = 4 * frame.width * frame.height
    /\ \E i \in Cells : P(i).active /\ Pixel(screen, i) = <<0, 255, 255, 255>>
    /\ \E i \in Cells :
        /\ ~P(i).active
        /\ P(i).heat > 0
        /\ Pixel(screen, i) = <<0, 0, P(i).heat, 255>>

\* ------------------------------------------------------ claims: new_empty
\* C13: new_empty(w, h) panics exactly when w = 0 or h = 0 or w * h does not
\* fit the index type; otherwise the grid has w * h cells, all of them
\* default (inactive, heat 0, guard clear) when new_empty returns, and still
\* w * h cells after every later operation.
C13_NewEmpty ==
    op # "main" =>
        LET w == dims[1]
            h == dims[2]
        IN /\ panicked <=> (w = 0 \/ h = 0 \/ w * h > UsizeMax)
           /\ ~panicked =>
                /\ frame.width = w
                /\ frame.height = h
                /\ Cells = 0 .. (w * h - 1)
                /\ DOMAIN frame.scratch_cells = Cells
                /\ op = "new_empty" => \A i \in Cells : P(i) = ParticleDefault

\* new_empty called with nonzero sides whose product overflows.
C13_Witness ==
    /\ op = "new_empty"
    /\ panicked
    /\ dims[1] # 0
    /\ dims[2] # 0

\* ------------------------------------------------------ claims: randomize
\* C14, as stated: after randomize() nearly all cells are active; read here
\* as: more than half of them.
C14_AsStated ==
    op = "randomize" => 2 * Cardinality({i \in Cells : P(i).active}) > Cardinality(Cells)

\* C14, amended: no draw of [0,1) exceeds the threshold 10.0, so for every
\* vector of draws randomize() leaves every cell inactive, with heat 0 and
\* the guard clear; stated of every randomize call of the model.
C14_NoneActive ==
    nops < MaxOps =>
        \A d \in [Cells -> Draws] :
            \A post \in {randomize(frame, d)} :
                /\ \A i \in Cells : d[i] <= INITIAL_FILL * 10
                /\ \A i \in Cells : post.particles[i] = ParticleDefault
                /\ post.width = frame.width
                /\ post.height = frame.height

\* randomize() called on a grid of several cells after another operation.
C14_Witness ==
    /\ op = "randomize"
    /\ nops > 1
    /\ Cardinality(Cells) > 1
    /\ \A i \in Cells : ~P(i).active

\* --------------------------------------------------------- claims: update
GuardsClear == \A j \in Cells : ~P(j).already_updated

\* The synchronous rule on the grid g at the start of the tick: cell i stays
\* active in the last row or on an active cell, and becomes active under an
\* active cell.
SyncActive(g, i) ==
    LET ps == g.particles
        w == g.width
    IN \/ ps[i].active /\ (i \div w = g.height - 1 \/ ps[i + w].active)
       \/ ~ps[i].active /\ i - w >= 0 /\ ps[i - w].active

\* C16: update() on a grid with all guards clear ends with cell i active
\* exactly when the synchronous rule on the start-of-tick grid makes it
\* active, for every cell i.
C16_SyncRule ==
    GuardsClear =>
        \A post \in {update(frame)} :
            \A i \in Cells : post.particles[i].active = SyncActive(frame, i)

\* update() ran on a column with two stacked particles over a free cell: the
\* lower one fell, the upper one stayed.
C16_Witness ==
    /\ op = "update"
    /\ \E i \in Cells :
        /\ i + 2 * frame.width \in Cells
        /\ tick_start.particles[i].active
        /\ tick_start.particles[i + frame.width].active
        /\ ~tick_start.particles[i + 2 * frame.width].active
        /\ P(i).active
        /\ ~P(i + frame.width).active
        /\ P(i + 2 * frame.width).active

\* The number of active cells in column x of the grid g.
ColActive(g, x) ==
    Cardinality({y \in 0 .. (g.height - 1) : g.particles[x + y * g.width].active})

\* C17: update() leaves the number of active cells of every column as it
\* was; in particular a column without active cells stays without.
C17_Conserves ==
    GuardsClear =>
        \A post \in {update(frame)} :
            \A x \in 0 .. (frame.width - 1) :
                ColActive(post, x) = ColActive(frame, x)

\* update() moved a particle in a grid with a column of two particles next
\* to an empty column.
C17_Witness ==
    /\ op = "update"
    /\ \E i \in Cells : tick_start.particles[i].active /\ ~P(i).active
    /\ \E x \in 0 .. (frame.width - 1) :
        ColActive(tick_start, x) = 2 /\ ColActive(frame, x) = 2
    /\ \E x \in 0 .. (frame.width - 1) :
        ColActive(tick_start, x) = 0 /\ ColActive(frame, x) = 0

\* n calls of update()
RECURSIVE UpdateN(_, _)
UpdateN(g, n) == IF n = 0 THEN g ELSE UpdateN(update(g), n - 1)

\* No active cell of g has an inactive cell below it.
Settled(g) ==
    \A i \in DOMAIN g.particles :
        (g.particles[i].active /\ i + g.width \in DOMAIN g.particles)
            => g.particles[i + g.width].active

\* C18: height - 1 calls of update() take a grid with all guards clear to a
\* grid that a further update() leaves as it is, and in which no active cell
\* has an inactive cell below it.
C18_Settles ==
    GuardsClear =>
        \A s \in {UpdateN(frame, frame.height - 1)} :
            /\ update(s) = s
            /\ Settled(s)

\* update() ran on a grid that needs all of its height - 1 calls, height at
\* least 3.
C18_Witness ==
    /\ op = "update"
    /\ frame.height >= 3
    /\ ~Settled(UpdateN(tick_start, frame.height - 2))
    /\ Settled(UpdateN(tick_start, frame.height - 1))

\* -------------------------------------------------- claims: event handler
\* What the claim says of the keys of an input frame: paused after it, and
\* the number of update() calls the handler made in it.
KeysAsClaimed ==
    /\ last.updates = IF ~paused \/ last.space THEN 1 ELSE 0
    /\ (last.p /\ ~last.space) => paused = ~last.paused0
    /\ (~last.p /\ ~last.space) => paused = last.paused0
    /\ last.space => (paused /\ last.updates = 1)

\* C19, as stated: in every input frame the handler calls update() once if
\* paused is false after the key handling or Space was pressed, and not at
\* all otherwise; P toggles paused; a frame with Space ends paused and runs
\* one update(), also with P in the same frame.
C19_AsStated == last.handled => KeysAsClaimed

\* C19, amended: the same, of every input frame in which neither Escape was
\* pressed nor quit requested.
C19_PauseAndStep == (last.handled /\ ~last.quit) => KeysAsClaimed

\* A frame with P and Space pressed while running: it ends paused after one
\* update().
C19_Witness ==
    /\ last.handled
    /\ ~last.quit
    /\ last.p
    /\ last.space
    /\ ~last.paused0
    /\ paused
    /\ last.updates = 1

\* set_line is called only in a frame that found draw_state set and had the
\* button held or released, with the value the latest toggle returned.
LineOnlyWhileDrawing ==
    last.line_active # None =>
        /\ last.draw0 # None
        /\ last.hold \/ last.released
        /\ last.line_active = Some(ret)

====
